---- MODULE Spec2Model ----
(***************************************************************************)
(* Single-chain state and the four adaptive Metropolis-Hastings blocks of  *)
(* Chain (src/src/chain.cpp).                                              *)
(*                                                                         *)
(* Number representation.                                                  *)
(*   - eps_pos, eps_neg, max_eps_*: integers k standing for k / EpsOne.    *)
(*   - m_prop_mean: integer thousandths.                                   *)
(*   - eps_pos_var, eps_neg_var: a record [milli, under]; under = TRUE is  *)
(*     the double UNDERFLO (1e-100) itself, otherwise the value is         *)
(*     milli / 1000.  Adding a step to UNDERFLO absorbs it, as in doubles. *)
(*   - p_prop_var[j]: the code only touches it as exp(log(v) +- step), so  *)
(*     the variable holds log(v) in thousandths (LogOf / the comparison    *)
(*     with LOG_UNDERFLO translate back).                                  *)
(*   - an allele frequency vector is [num, den]: entry a is the IEEE       *)
(*     quotient num[a] / (double) den, which is NaN when den = 0.          *)
(*   - a log-likelihood is [nan, x]: NaN, or the number x.                 *)
(*   - a cell of llik_old / llik_new is the value returned by one call of  *)
(*     calc_genotype_marginal_llik together with the arguments of that     *)
(*     call (coi, freq, eps_neg, eps_pos).                                 *)
(* The importance draws, the proposals and the acceptance draw come from   *)
(* the Sampler's engine: they are inputs of the actions.                   *)
(***************************************************************************)
EXTENDS Integers, Naturals, Sequences, FiniteSets, TLC

\* ------------------------------------------------------------------ bounds
NumAlleles == 2
MaxCoi == 2
MaxCalls == 2
MaxMCalls == 8
MaxDepth == 2
MaxReadCalls == 1
EpsOne == 10

\* --------------------------------------------------------------- constants
\* #define UNDERFLO 1e-100 : ln(1e-100) = -230.2585..., in thousandths
LOG_UNDERFLO == -230258
\* 0.23 and (1 - 0.23), in millionths, before the division by sqrt(it)
TARGET == 230000
ONE_MINUS_TARGET == 770000
\* exp() on doubles: 0 below about -745.13, +inf above about 709.78
EXP_UNDERFLOW == -745
EXP_OVERFLOW == 709

\* ----------------------------------------------------------------- doubles
NaN == [nan |-> TRUE, x |-> 0]
Dbl(x) == [nan |-> FALSE, x |-> x]
DAdd(a, b) == IF a.nan \/ b.nan THEN NaN ELSE Dbl(a.x + b.x)
DSub(a, b) == IF a.nan \/ b.nan THEN NaN ELSE Dbl(a.x - b.x)
\* a <= b on doubles: false as soon as one side is NaN
DLeq(a, b) == ~a.nan /\ ~b.nan /\ a.x <= b.x

RECURSIVE SeqSum(_)
SeqSum(s) == IF s = <<>> THEN 0 ELSE Head(s) + SeqSum(Tail(s))

RECURSIVE DSum(_)
DSum(s) == IF s = <<>> THEN Dbl(0) ELSE DAdd(Head(s), DSum(Tail(s)))

\* floor(1000 * sqrt(it))
SqrtMilli[it \in 1..(MaxCalls + 1)] ==
    CHOOSE r \in 1000..(1000 * it) :
        r * r <= it * 1000000 /\ (r + 1) * (r + 1) > it * 1000000

\* (1 - 0.23) / sqrt(double(iteration)), in thousandths
AdaptUp(it) == (ONE_MINUS_TARGET * 1000) \div (SqrtMilli[it] * 1000)
\* 0.23 / sqrt(double(iteration)), in thousandths
AdaptDown(it) == (TARGET * 1000) \div (SqrtMilli[it] * 1000)

\* ------------------------------------------------- proposal-variance values
UNDERFLO == [milli |-> 0, under |-> TRUE]
Var(k) == [milli |-> k, under |-> FALSE]
\* v + c for a step c # 0 of at least a thousandth: UNDERFLO is absorbed
VarAdd(v, c) == IF v.under THEN Var(c) ELSE Var(v.milli + c)
\* v < UNDERFLO
VarLtUnderflo(v) == ~v.under /\ v.milli <= 0

\* ------------------------------------------------------ allele frequencies
IsNaNFreq(f) == f.den = 0
\* |sum(p[j]) - 1| <= 1e-9 and every entry >= 0
IsSimplex(f) ==
    /\ f.den > 0
    /\ \A a \in DOMAIN f.num : f.num[a] >= 0
    /\ SeqSum(f.num) = f.den

\* --------------------------------------------------------------- the state
VARIABLES
    pc,               \* "new", "idle", "update_m", "update_p": where the chain is
    idx,              \* loop index of the running update_m / update_p pass
    iteration,        \* argument of the running pass
    genotyping_data,  \* Chain::genotyping_data
    params,           \* Chain::params
    m, m_accept, m_prop_mean,
    p, p_accept, p_prop_var,
    eps_pos, eps_pos_accept, eps_pos_var,
    eps_neg, eps_neg_accept, eps_neg_var,
    llik_old, llik_new, llik,
    calls,            \* history: how many times each block has been called
    last,             \* history: the latest proposal and the cells it recomputed
    kernel            \* history: the latest evaluation of the kernel's parts

\* for(j < genotyping_data.num_loci), for(i < genotyping_data.num_samples)
Loci == 1..genotyping_data.num_loci
Samples == 1..genotyping_data.num_samples
Cells == Loci \X Samples

chain == <<m, m_accept, m_prop_mean, p, p_accept, p_prop_var,
           eps_pos, eps_pos_accept, eps_pos_var,
           eps_neg, eps_neg_accept, eps_neg_var, llik_old, llik_new, llik>>
vars == <<pc, idx, iteration, genotyping_data, params, chain, calls, last, kernel>>

\* history record of one proposal: the block, the loop index, the proposed
\* COI or epsilon, the cells of llik_new it recomputed (one kernel call
\* each), the acceptance draws it consumed, and the MH decision
Proposal(block, index, coi, eps, cells, draws, accepted) ==
    [block |-> block, index |-> index, coi |-> coi, eps |-> eps,
     cells |-> cells, draws |-> draws, accepted |-> accepted]
NoProposal == Proposal("none", 0, 0, 0, {}, <<>>, FALSE)
\* no part of the kernel has been evaluated on its own yet
NoKernel == [part |-> "none"]

\* ------------------------------------------------------------ the kernel
\* calc_genotype_marginal_llik(obs, coi, allele_frequencies, eps_neg, eps_pos):
\* a Monte Carlo estimate; v is what the importance draws of this call make
\* of it.  D = min(importance_sampling_depth, lookup) = 0 gives log(0/0), and
\* a NaN frequency reaches res through log(allele_frequencies[i] + 1e-12).
calc_genotype_marginal_llik(depth, coi, freq, epsilon_neg, epsilon_pos, v) ==
    [val |-> IF depth = 0 \/ IsNaNFreq(freq)
             THEN NaN ELSE Dbl(v),
     coi |-> coi, freq |-> freq, eps_neg |-> epsilon_neg, eps_pos |-> epsilon_pos]

\* The table reads of one kernel call:
\* lookup.lookup_sampling_depth[coi][allele_frequencies.size()]
SamplingDepthRead(coi, freq) == <<coi, Len(freq.num)>>
\* std::vector<double> res(num_genotypes, lookup.lookup_lgamma[coi + 1]);
LgammaRead(coi) == coi + 1
\* The tables of Lookup, sized for max_coi and the largest locus: lgamma[k]
\* for k in [0, K_max] with K_max = max_coi + max(A_j) + 2, and
\* sampling_depth[c][a] for c in [0, max_coi] and a in [0, max(A_j)].
MaxAlleles(gd) ==
    CHOOSE a \in {gd.num_alleles[j] : j \in 1..gd.num_loci} :
        \A j \in 1..gd.num_loci : gd.num_alleles[j] <= a
lookup_lgamma(gd, pr) == 0..(pr.max_coi + MaxAlleles(gd) + 2)
lookup_sampling_depth(gd, pr) == (0..pr.max_coi) \X (0..MaxAlleles(gd))

\* The emission log-probabilities are kept symbolic: a value is the linear
\* combination  tp*log(1 - eps_neg) + tn*log(1 - eps_pos) + fp*log(eps_pos)
\* + fn*log(eps_neg), held as its four integer coefficients.
LogLin(a, b, c, d) == [tp |-> a, tn |-> b, fp |-> c, fn |-> d]
LinAdd(x, y) == LogLin(x.tp + y.tp, x.tn + y.tn, x.fp + y.fp, x.fn + y.fn)
LinScale(k, x) == LogLin(k * x.tp, k * x.tn, k * x.fp, k * x.fn)
\* double tp = log(1 - epsilon_neg); tn = log(1 - epsilon_pos);
\* double fp = log(epsilon_pos);     fn = log(epsilon_neg);
tp == LogLin(1, 0, 0, 0)
tn == LogLin(0, 1, 0, 0)
fp == LogLin(0, 0, 1, 0)
fn == LogLin(0, 0, 0, 1)

\* mutant: a conventional Bernoulli emission, not scaled by the latent count
TruePositive_Unscaled(g) == tp
\* lliks[i] += true_genotypes[i][j] * tp;
TruePositive(g) == LinScale(g, tp)
\* lliks[i] += true_genotypes[i][j] * fn;
FalseNegative(g) == LinScale(g, fn)

\* the body of the loop over alleles, for allele j of one genotype
EmissionTerm(obs_j, g_j) ==
    IF obs_j # 0
    THEN IF g_j # 0 THEN TruePositive(g_j) ELSE fp
    ELSE IF g_j # 0 THEN FalseNegative(g_j) ELSE tn

\* lliks[i] after the alleles 1..j of true_genotypes[i] have been added
RECURSIVE EmissionUpTo(_, _, _)
EmissionUpTo(obs_genotype, genotype, j) ==
    IF j = 0 THEN LogLin(0, 0, 0, 0)
    ELSE LinAdd(EmissionUpTo(obs_genotype, genotype, j - 1),
                EmissionTerm(obs_genotype[j], genotype[j]))

\* calc_obs_genotype_lliks: one entry per element of true_genotypes, the
\* first num_genotypes of them filled in, the others left at 0
calc_obs_genotype_lliks(obs_genotype, true_genotypes, num_genotypes) ==
    [i \in 1..Len(true_genotypes) |->
        IF i <= num_genotypes
        THEN EmissionUpTo(obs_genotype, true_genotypes[i], Len(true_genotypes[i]))
        ELSE LogLin(0, 0, 0, 0)]

\* The reduction that ends calc_genotype_marginal_llik.  exp(t) is 0 when t
\* is below EXP_UNDERFLOW and +inf when t is above EXP_OVERFLOW; the result
\* is NaN (log(0/0)), -inf (log(0/D)), +inf, or the finite number
\* log(sum of exp(t) over the terms that did not underflow) - log(D).
Terms(g_given_g_star, g_star, importance, depth) ==
    [i \in 1..depth |-> g_given_g_star[i] + g_star[i] - importance[i]]
Finite(live, depth) == [kind |-> "finite", live |-> live, depth |-> depth]
MinusInf == [kind |-> "-inf"]
PlusInf == [kind |-> "+inf"]
NotANumber == [kind |-> "nan"]
IsLive(t) == t >= EXP_UNDERFLOW
\* for(i < depth) res += exp(terms[i]) : the terms that contribute to res
SumExp(terms) == SelectSeq(terms, IsLive)
\* res = res / importance_sampling_depth; return log(res);
LogMean(terms, depth) ==
    IF depth = 0 THEN NotANumber
    ELSE IF \E i \in DOMAIN terms : terms[i] > EXP_OVERFLOW THEN PlusInf
    ELSE IF SumExp(terms) = <<>> THEN MinusInf
    ELSE Finite(SumExp(terms), depth)

\* ----------------------------------------------------------- construction
\* total_locus_alleles[i][k] and total_alleles[i] of initialize_p, locus j
RECURSIVE CountAllele(_, _, _)
CountAllele(obs_locus, a, n) ==
    IF n = 0 THEN 0 ELSE obs_locus[n][a] + CountAllele(obs_locus, a, n - 1)

initialize_p(gd) ==
    [j \in 1..gd.num_loci |->
        LET count == [a \in 1..gd.num_alleles[j] |->
                         CountAllele(gd.observed_alleles[j], a, gd.num_samples)]
        IN  [num |-> count, den |-> SeqSum(count)]]

initialize_likelihood(gd, pr, vals) ==
    [j \in 1..gd.num_loci |-> [i \in 1..gd.num_samples |->
        calc_genotype_marginal_llik(pr.importance_sampling_depth,
                                    gd.observed_coi[i], initialize_p(gd)[j],
                                    pr.eps_neg_0, pr.eps_pos_0, vals[j][i])]]

\* Chain::Chain: no argument is examined before the members are filled in.
Chain(gd, pr, vals) ==
    /\ pc = "new"
    /\ pc' = "idle"
    /\ genotyping_data' = gd
    /\ params' = pr
    /\ llik' = Dbl(0)
    /\ eps_pos_var' = Var(50)
    /\ eps_neg_var' = Var(50)
    /\ m_prop_mean' = [i \in 1..gd.num_samples |-> 1000]
    /\ p_prop_var' = [j \in 1..gd.num_loci |-> 0]
    /\ p' = initialize_p(gd)
    /\ p_accept' = [j \in 1..gd.num_loci |-> 0]
    /\ m' = gd.observed_coi
    /\ m_accept' = [i \in 1..gd.num_samples |-> 0]
    /\ eps_neg' = pr.eps_neg_0
    /\ eps_neg_accept' = 0
    /\ eps_pos' = pr.eps_pos_0
    /\ eps_pos_accept' = 0
    /\ llik_old' = initialize_likelihood(gd, pr, vals)
    /\ llik_new' = initialize_likelihood(gd, pr, vals)
    /\ UNCHANGED <<idx, iteration, calls, last, kernel>>

\* Before the constructor has run nothing of the chain exists.
Init ==
    /\ pc = "new"
    /\ idx = 0
    /\ iteration = 0
    /\ genotyping_data = [num_loci |-> 0, num_samples |-> 0, num_alleles |-> <<>>,
                          observed_alleles |-> <<>>, observed_coi |-> <<>>]
    /\ params = [importance_sampling_depth |-> 0, max_coi |-> 0,
                 eps_pos_0 |-> 0, eps_neg_0 |-> 0, max_eps_pos |-> 0, max_eps_neg |-> 0]
    /\ m = <<>> /\ m_accept = <<>> /\ m_prop_mean = <<>>
    /\ p = <<>> /\ p_accept = <<>> /\ p_prop_var = <<>>
    /\ eps_pos = 0 /\ eps_pos_accept = 0 /\ eps_pos_var = Var(0)
    /\ eps_neg = 0 /\ eps_neg_accept = 0 /\ eps_neg_var = Var(0)
    /\ llik_old = <<>> /\ llik_new = <<>> /\ llik = Dbl(0)
    /\ calls = [m |-> 0, p |-> 0, eps_pos |-> 0, eps_neg |-> 0]
    /\ last = NoProposal
    /\ kernel = NoKernel

\* ------------------------------------------------------------ shared steps
Depth == params.importance_sampling_depth

\* sum_can / sum_orig over the cells of one column, one row, or the matrix
SumColumn(cache, i) == DSum([j \in Loci |-> cache[j][i].val])
SumRow(cache, j) == DSum([i \in Samples |-> cache[j][i].val])
SumAll(cache) == DSum([j \in Loci |-> SumRow(cache, j)])

\* sampler.sample_log_mh_acceptance() <= (sum_can - sum_orig)
Accept(logU, sum_can, sum_orig) == DLeq(Dbl(logU), DSub(sum_can, sum_orig))

\* mutant: the counter is bumped twice
CountAccept_Twice(n) == n + 2
\* x += 1 on an acceptance counter
CountAccept(n) == n + 1

\* mutant: block m copies the whole of llik_new, as the eps blocks do
CopyColumn_All(old, new, i) == new
\* mutant: the copy new->old of block m is left out
CopyColumn_Omitted(old, new, i) == old
\* for(j) llik_old[j][i] = llik_new[j][i];
CopyColumn(old, new, i) == [j \in Loci |-> [old[j] EXCEPT ![i] = new[j][i]]]
\* mutant: the copy new->old of block p is left out
CopyRow_Omitted(old, new, j) == old
\* for(i) llik_old[j][i] = llik_new[j][i];
CopyRow(old, new, j) == [old EXCEPT ![j] = new[j]]
\* for(j) for(i) llik_old[j][i] = llik_new[j][i];
CopyAll(old, new) == new

\* ------------------------------------------------------------- block m
\* mutant: the upper end of the COI range is not tested
InRangeCoi_NoUpper(prop_m) == prop_m > 0
\* mutant: the lower end of the COI range is not tested
InRangeCoi_NoLower(prop_m) == params.max_coi >= prop_m
\* params.max_coi >= prop_m && prop_m > 0
InRangeCoi(prop_m) == params.max_coi >= prop_m /\ prop_m > 0

\* mutant: an unchanged COI is not short-circuited
SameCoi_Never(prop_m, curr) == FALSE
\* if(prop_m == m[i]) : accept automatically if COI is unchanged
SameCoi(prop_m, curr) == prop_m = curr

\* mutant: the clamp at 0 is left out
DecreaseMean_NoClamp(mean, it) == mean - AdaptDown(it)
\* m_prop_mean[i] -= 0.23 / sqrt(it); m_prop_mean[i] = (.. < 0) ? 0 : ..
DecreaseMean(mean, it) ==
    IF mean - AdaptDown(it) < 0 THEN 0 ELSE mean - AdaptDown(it)

\* The call: update_m(iteration) enters its loop over the samples.
update_m(it) ==
    /\ pc = "idle"
    /\ pc' = "update_m"
    /\ idx' = 1
    /\ iteration' = it
    /\ calls' = [calls EXCEPT !.m = @ + 1]
    /\ UNCHANGED <<genotyping_data, params, chain, last, kernel>>

\* One turn of the loop, for sample idx: delta is sample_coi_delta's draw,
\* vals[j] the kernel's estimate for locus j, logU the acceptance draw.
update_m_sample(delta, vals, logU) ==
    /\ pc = "update_m"
    /\ LET i == idx
           prop_m == delta + m[i]
           cand == [j \in Loci |-> [llik_new[j] EXCEPT ![i] =
                       calc_genotype_marginal_llik(Depth, prop_m, p[j], eps_neg, eps_pos, vals[j])]]
           sum_can == SumColumn(cand, i)
           sum_orig == SumColumn(llik_old, i)
           column == {<<j, i>> : j \in Loci}
       IN  IF SameCoi(prop_m, m[i])
           THEN /\ m_prop_mean' = [m_prop_mean EXCEPT ![i] = @ + AdaptUp(iteration)]
                /\ m_accept' = [m_accept EXCEPT ![i] = CountAccept(@)]
                /\ last' = Proposal("m", i, prop_m, 0, {}, <<>>, TRUE)
                /\ UNCHANGED <<m, llik_old, llik_new>>
           ELSE IF InRangeCoi(prop_m)
           THEN /\ llik_new' = cand
                /\ last' = Proposal("m", i, prop_m, 0, column, <<logU>>,
                                     Accept(logU, sum_can, sum_orig))
                /\ IF Accept(logU, sum_can, sum_orig)
                   THEN /\ m' = [m EXCEPT ![i] = prop_m]
                        /\ m_prop_mean' = [m_prop_mean EXCEPT ![i] = @ + AdaptUp(iteration)]
                        /\ m_accept' = [m_accept EXCEPT ![i] = CountAccept(@)]
                        /\ llik_old' = CopyColumn(llik_old, cand, i)
                   ELSE /\ m_prop_mean' = [m_prop_mean EXCEPT ![i] = DecreaseMean(@, iteration)]
                        /\ UNCHANGED <<m, m_accept, llik_old>>
           ELSE /\ last' = Proposal("m", i, prop_m, 0, {}, <<>>, FALSE)
                /\ UNCHANGED <<m, m_prop_mean, m_accept, llik_old, llik_new>>
    /\ IF idx < genotyping_data.num_samples
       THEN idx' = idx + 1 /\ UNCHANGED <<pc, iteration>>
       ELSE idx' = 0 /\ pc' = "idle" /\ iteration' = 0
    /\ UNCHANGED <<kernel, genotyping_data, params, p, p_accept, p_prop_var,
                   eps_pos, eps_pos_accept, eps_pos_var,
                   eps_neg, eps_neg_accept, eps_neg_var, llik, calls>>

\* ------------------------------------------------------------- block p
\* exp(log(p_prop_var[j]) + (1 - 0.23) / sqrt(iteration)), as its logarithm
IncreaseVar(logvar, it) == logvar + AdaptUp(it)
\* exp(log(p_prop_var[j]) - 0.23 / sqrt(iteration)), as its logarithm
DecreaseVar(logvar, it) == logvar - AdaptDown(it)

\* The call: update_p(iteration) enters its loop over the loci.
update_p(it) ==
    /\ pc = "idle"
    /\ pc' = "update_p"
    /\ idx' = 1
    /\ iteration' = it
    /\ calls' = [calls EXCEPT !.p = @ + 1]
    /\ UNCHANGED <<genotyping_data, params, chain, last, kernel>>

\* One turn of the loop, for locus idx: prop_p is sample_allele_frequencies'
\* draw, vals[i] the kernel's estimate for sample i, logU the acceptance draw.
update_p_locus(prop_p, vals, logU) ==
    /\ pc = "update_p"
    /\ LET j == idx
           cand == [llik_new EXCEPT ![j] = [i \in Samples |->
                       calc_genotype_marginal_llik(Depth, m[i], prop_p, eps_neg, eps_pos, vals[i])]]
           sum_can == SumRow(cand, j)
           sum_orig == SumRow(llik_old, j)
       IN  /\ llik_new' = cand
           /\ last' = Proposal("p", j, 0, 0, {<<j, i>> : i \in Samples}, <<logU>>,
                                Accept(logU, sum_can, sum_orig))
           /\ IF Accept(logU, sum_can, sum_orig)
              THEN /\ p' = [p EXCEPT ![j] = prop_p]
                   /\ p_accept' = [p_accept EXCEPT ![j] = CountAccept(@)]
                   /\ p_prop_var' = [p_prop_var EXCEPT ![j] = IncreaseVar(@, iteration)]
                   /\ llik_old' = CopyRow(llik_old, cand, j)
              ELSE /\ p_prop_var' = [p_prop_var EXCEPT ![j] = DecreaseVar(@, iteration)]
                   /\ UNCHANGED <<p, p_accept, llik_old>>
    /\ IF idx < genotyping_data.num_loci
       THEN idx' = idx + 1 /\ UNCHANGED <<pc, iteration>>
       ELSE idx' = 0 /\ pc' = "idle" /\ iteration' = 0
    /\ UNCHANGED <<kernel, genotyping_data, params, m, m_accept, m_prop_mean,
                   eps_pos, eps_pos_accept, eps_pos_var,
                   eps_neg, eps_neg_accept, eps_neg_var, llik, calls>>

\* ------------------------------------------------------ blocks eps+ / eps-
\* mutant: the upper end of the eps+ range is let in
InRangeEpsPos_Inclusive(prop) == prop <= params.max_eps_pos /\ prop > 0
\* prop_eps_pos < params.max_eps_pos && prop_eps_pos > 0
InRangeEpsPos(prop) == prop < params.max_eps_pos /\ prop > 0
\* mutant: the upper end of the eps- range is not tested
InRangeEpsNeg_NoUpper(prop) == prop > 0
\* prop_eps_neg < params.max_eps_neg && prop_eps_neg > 0
InRangeEpsNeg(prop) == prop < params.max_eps_neg /\ prop > 0

\* eps_*_var += (1 - 0.23) / sqrt(double(iteration))
IncreaseEpsVar(v, it) == VarAdd(v, AdaptUp(it))
\* eps_*_var -= 0.23 / sqrt(double(iteration)); if (.. < UNDERFLO) .. = UNDERFLO
DecreaseEpsVar(v, it) ==
    IF VarLtUnderflo(VarAdd(v, 0 - AdaptDown(it))) THEN UNDERFLO
    ELSE VarAdd(v, 0 - AdaptDown(it))

\* what an accepted eps+ proposal commits to the two error rates
CommitEpsPos(prop) == [eps_pos |-> prop, eps_neg |-> eps_neg]
\* mutant: the eps- block commits its proposal to eps_pos
CommitEpsNeg_Swapped(prop) == [eps_pos |-> prop, eps_neg |-> eps_neg]
\* what an accepted eps- proposal commits to the two error rates
CommitEpsNeg(prop) == [eps_pos |-> eps_pos, eps_neg |-> prop]

update_eps_pos(it, prop_eps_pos, vals, logU) ==
    /\ pc = "idle"
    /\ calls' = [calls EXCEPT !.eps_pos = @ + 1]
    /\ LET cand == [j \in Loci |-> [i \in Samples |->
                       calc_genotype_marginal_llik(Depth, m[i], p[j], eps_neg, prop_eps_pos, vals[j][i])]]
           sum_can == SumAll(cand)
           sum_orig == SumAll(llik_old)
       IN  IF InRangeEpsPos(prop_eps_pos)
           THEN /\ llik_new' = cand
                /\ last' = Proposal("eps_pos", 0, 0, prop_eps_pos, Cells, <<logU>>,
                                     Accept(logU, sum_can, sum_orig))
                /\ IF Accept(logU, sum_can, sum_orig)
                   THEN /\ eps_pos' = CommitEpsPos(prop_eps_pos).eps_pos
                        /\ eps_neg' = CommitEpsPos(prop_eps_pos).eps_neg
                        /\ eps_pos_var' = IncreaseEpsVar(eps_pos_var, it)
                        /\ eps_pos_accept' = CountAccept(eps_pos_accept)
                        /\ llik_old' = CopyAll(llik_old, cand)
                   ELSE /\ eps_pos_var' = DecreaseEpsVar(eps_pos_var, it)
                        /\ UNCHANGED <<eps_pos, eps_neg, eps_pos_accept, llik_old>>
           ELSE /\ last' = Proposal("eps_pos", 0, 0, prop_eps_pos, {}, <<>>, FALSE)
                /\ UNCHANGED <<eps_pos, eps_neg, eps_pos_var, eps_pos_accept, llik_old, llik_new>>
    /\ UNCHANGED <<kernel, pc, idx, iteration, genotyping_data, params,
                   m, m_accept, m_prop_mean, p, p_accept, p_prop_var,
                   eps_neg_accept, eps_neg_var, llik>>

update_eps_neg(it, prop_eps_neg, vals, logU) ==
    /\ pc = "idle"
    /\ calls' = [calls EXCEPT !.eps_neg = @ + 1]
    /\ LET cand == [j \in Loci |-> [i \in Samples |->
                       calc_genotype_marginal_llik(Depth, m[i], p[j], prop_eps_neg, eps_pos, vals[j][i])]]
           sum_can == SumAll(cand)
           sum_orig == SumAll(llik_old)
       IN  IF InRangeEpsNeg(prop_eps_neg)
           THEN /\ llik_new' = cand
                /\ last' = Proposal("eps_neg", 0, 0, prop_eps_neg, Cells, <<logU>>,
                                     Accept(logU, sum_can, sum_orig))
                /\ IF Accept(logU, sum_can, sum_orig)
                   THEN /\ eps_pos' = CommitEpsNeg(prop_eps_neg).eps_pos
                        /\ eps_neg' = CommitEpsNeg(prop_eps_neg).eps_neg
                        /\ eps_neg_var' = IncreaseEpsVar(eps_neg_var, it)
                        /\ eps_neg_accept' = CountAccept(eps_neg_accept)
                        /\ llik_old' = CopyAll(llik_old, cand)
                   ELSE /\ eps_neg_var' = DecreaseEpsVar(eps_neg_var, it)
                        /\ UNCHANGED <<eps_pos, eps_neg, eps_neg_accept, llik_old>>
           ELSE /\ last' = Proposal("eps_neg", 0, 0, prop_eps_neg, {}, <<>>, FALSE)
                /\ UNCHANGED <<eps_pos, eps_neg, eps_neg_var, eps_neg_accept, llik_old, llik_new>>
    /\ UNCHANGED <<kernel, pc, idx, iteration, genotyping_data, params,
                   m, m_accept, m_prop_mean, p, p_accept, p_prop_var,
                   eps_pos_accept, eps_pos_var, llik>>

\* ---------------------------------------------------------------- get_llik
\* mutant: the total is not reset before the cells are added
ResetLlik_Omitted(prev) == prev
\* llik = 0;
ResetLlik(prev) == Dbl(0)
\* calculate_llik: llik = 0; for(j) for(i) llik += llik_old[j][i];
calculate_llik == llik' = DAdd(ResetLlik(llik), SumAll(llik_old))
\* get_llik: calculate_llik(); return llik;  (the value returned is llik')
get_llik ==
    /\ pc = "idle"
    /\ calculate_llik
    /\ UNCHANGED <<pc, idx, iteration, genotyping_data, params,
                   m, m_accept, m_prop_mean, p, p_accept, p_prop_var,
                   eps_pos, eps_pos_accept, eps_pos_var,
                   eps_neg, eps_neg_accept, eps_neg_var,
                   llik_old, llik_new, calls, last, kernel>>

\* ------------------------------------------- the kernel's parts on their own
\* one call of calc_obs_genotype_lliks
EvalEmission(obs_genotype, true_genotypes, num_genotypes) ==
    /\ kernel' = [part |-> "calc_obs_genotype_lliks",
                  obs_genotype |-> obs_genotype,
                  true_genotypes |-> true_genotypes,
                  num_genotypes |-> num_genotypes,
                  lliks |-> calc_obs_genotype_lliks(obs_genotype, true_genotypes,
                                                    num_genotypes)]
    /\ UNCHANGED <<pc, idx, iteration, genotyping_data, params, chain, calls, last>>

\* the reduction of calc_genotype_marginal_llik on three log-pmf sequences
EvalMarginal(g_given_g_star, g_star, importance, depth) ==
    /\ kernel' = [part |-> "calc_genotype_marginal_llik",
                  g_given_g_star |-> g_given_g_star,
                  g_star |-> g_star,
                  importance |-> importance,
                  depth |-> depth,
                  res |-> LogMean(Terms(g_given_g_star, g_star, importance, depth),
                                  depth)]
    /\ UNCHANGED <<pc, idx, iteration, genotyping_data, params, chain, calls, last>>

\* ------------------------------------------------------------------ inputs
\* presence calls of one (locus, sample): none, the first allele, all alleles
ObsVectors ==
    { [a \in 1..NumAlleles |-> 0],
      [a \in 1..NumAlleles |-> IF a = 1 THEN 1 ELSE 0],
      [a \in 1..NumAlleles |-> 1] }

\* num_loci x num_samples of the observation sets
Shapes == { <<2, 2>> }

\* observations in which every sample calls the same at every locus
GenotypingData(shape, obs, coi) ==
    [num_loci |-> shape[1], num_samples |-> shape[2],
     num_alleles |-> [j \in 1..shape[1] |-> NumAlleles],
     observed_alleles |-> [j \in 1..shape[1] |-> [i \in 1..shape[2] |-> obs]],
     observed_coi |-> coi]
\* observations legal under the data model
LegalData ==
    { GenotypingData(s, o, [i \in 1..s[2] |-> IF o[1] = 0 THEN 1 ELSE MaxCoi]) :
        s \in Shapes, o \in ObsVectors }

\* a configuration inside the ranges of Parameters
LegalParams ==
    { [importance_sampling_depth |-> 1, max_coi |-> MaxCoi,
       eps_pos_0 |-> 1, eps_neg_0 |-> 2, max_eps_pos |-> 3, max_eps_neg |-> 3] }

\* kernel estimates (log-likelihoods) and acceptance draws log U; the cells
\* one proposal recomputes get the same estimate
Vals == {-1, 0}
ValColumns == { [j \in Loci |-> v] : v \in Vals }
ValRows == { [i \in Samples |-> v] : v \in Vals }
ValMatrices(gd) ==
    { [j \in 1..gd.num_loci |-> [i \in 1..gd.num_samples |-> v]] : v \in Vals }
LogUs == {-1, 0}
\* draws of sample_coi_delta
Deltas == {-1, 0, 1}
\* draws of sample_epsilon_pos / sample_epsilon_neg, both ends of the range
\* included
EpsProposals(max) == 0..max
\* the host numbers its calls: the k-th call of a block is iteration k
Iterations == {1 + calls.m + calls.p + calls.eps_pos + calls.eps_neg}

\* draws of sample_allele_frequencies: a point of the open simplex; the logit
\* transform of a NaN vector is NaN
Uniform(n) == [num |-> [a \in 1..n |-> 1], den |-> n]
Skewed(n) == [num |-> [a \in 1..n |-> IF a = 1 THEN 2 ELSE 1], den |-> n + 1]
sample_allele_frequencies(curr) ==
    IF IsNaNFreq(curr) THEN {curr}
    ELSE {Uniform(Len(curr.num)), Skewed(Len(curr.num))}

\* ---------------------------------------------------------- specification
\* The host calls the blocks in any order, MaxCalls times in all.
Budget == calls.m + calls.p + calls.eps_pos + calls.eps_neg < MaxCalls

Construct ==
    \E gd \in LegalData, pr \in LegalParams :
        \E vals \in ValMatrices(gd) : Chain(gd, pr, vals)
CallM == Budget /\ \E it \in Iterations : update_m(it)
StepM ==
    \E delta \in Deltas, vals \in ValColumns, logU \in LogUs :
        update_m_sample(delta, vals, logU)
CallP == Budget /\ \E it \in Iterations : update_p(it)
StepP ==
    /\ pc = "update_p"
    /\ \E vals \in ValRows, logU \in LogUs :
        \E prop_p \in sample_allele_frequencies(p[idx]) :
            update_p_locus(prop_p, vals, logU)
EpsPos ==
    /\ Budget
    /\ \E it \in Iterations, vals \in ValMatrices(genotyping_data), logU \in LogUs :
        \E prop \in EpsProposals(params.max_eps_pos) :
            update_eps_pos(it, prop, vals, logU)
EpsNeg ==
    /\ Budget
    /\ \E it \in Iterations, vals \in ValMatrices(genotyping_data), logU \in LogUs :
        \E prop \in EpsProposals(params.max_eps_neg) :
            update_eps_neg(it, prop, vals, logU)

Next == Construct \/ CallM \/ StepM \/ CallP \/ StepP \/ EpsPos \/ EpsNeg
Spec == Init /\ [][Next]_vars

\* Construction alone, on configurations and observations in and out of the
\* ranges of Parameters and GenotypingData.  (An observed_coi above max_coi
\* is left out: the kernel would index the lookup tables past their end.)
AnyData ==
    UNION { { GenotypingData(s, o, c) : o \in ObsVectors, c \in [1..s[2] -> 0..MaxCoi] } :
            s \in Shapes }
AnyParams ==
    [importance_sampling_depth : {0, 1}, max_coi : {0, MaxCoi},
     eps_pos_0 : {0, 1, 3}, eps_neg_0 : {2}, max_eps_pos : {3, EpsOne},
     max_eps_neg : {3}]
ConstructAny ==
    \E gd \in AnyData, pr \in AnyParams :
        \E vals \in ValMatrices(gd) : Chain(gd, pr, vals)
SpecConstruct == Init /\ [][ConstructAny]_vars

\* A run of the p block at iteration 1 in which the candidate is always the
\* less likely one, so that every proposal is rejected; it ends once a
\* proposal variance has passed UNDERFLO.
RejectConstruct ==
    \E gd \in {d \in LegalData : \A j \in 1..d.num_loci : IsSimplex(initialize_p(d)[j])} :
        \E pr \in LegalParams :
            Chain(gd, pr, [j \in 1..gd.num_loci |-> [i \in 1..gd.num_samples |-> 0]])
RejectCallP ==
    /\ pc = "idle"
    /\ \A j \in Loci : p_prop_var[j] >= LOG_UNDERFLO
    /\ update_p(1)
RejectStepP ==
    /\ pc = "update_p"
    /\ \E prop_p \in sample_allele_frequencies(p[idx]) :
        update_p_locus(prop_p, [i \in Samples |-> -1], 0)
NextReject == RejectConstruct \/ RejectCallP \/ RejectStepP
SpecReject == Init /\ [][NextReject]_vars

\* The COI block alone, called MaxMCalls times at iteration 1 or 2 on one
\* sample typed at two loci: long enough for m_prop_mean to be driven down
\* to its clamp.
CoiShapes == { <<2, 1>> }
CoiData ==
    { GenotypingData(s, o, [i \in 1..s[2] |-> IF o[1] = 0 THEN 1 ELSE MaxCoi]) :
        s \in CoiShapes, o \in ObsVectors }
CoiConstruct ==
    \E gd \in CoiData, pr \in LegalParams :
        \E vals \in ValMatrices(gd) : Chain(gd, pr, vals)
CoiCall == calls.m < MaxMCalls /\ \E it \in {1, 2} : update_m(it)
NextCoi == CoiConstruct \/ CoiCall \/ StepM
SpecCoi == Init /\ [][NextCoi]_vars

\* The host reads the total log-likelihood between block updates: every
\* block may be called, MaxReadCalls times in all, and get_llik at any time
\* the chain is idle.
ReadBudget == calls.m + calls.p + calls.eps_pos + calls.eps_neg < MaxReadCalls
ReadCallM == ReadBudget /\ \E it \in Iterations : update_m(it)
ReadCallP == ReadBudget /\ \E it \in Iterations : update_p(it)
ReadEpsPos ==
    /\ ReadBudget
    /\ \E it \in Iterations, vals \in ValMatrices(genotyping_data), logU \in LogUs :
        \E prop \in EpsProposals(params.max_eps_pos) :
            update_eps_pos(it, prop, vals, logU)
ReadEpsNeg ==
    /\ ReadBudget
    /\ \E it \in Iterations, vals \in ValMatrices(genotyping_data), logU \in LogUs :
        \E prop \in EpsProposals(params.max_eps_neg) :
            update_eps_neg(it, prop, vals, logU)
NextRead ==
    \/ Construct \/ ReadCallM \/ StepM \/ ReadCallP \/ StepP
    \/ ReadEpsPos \/ ReadEpsNeg \/ get_llik
SpecRead == Init /\ [][NextRead]_vars

\* The parts of the kernel, each applied once to inputs of its own.
\* presence calls and latent counts of one (locus, sample)
ObsGenotypes == [1..NumAlleles -> {0, 1}]
CountVectors == [1..NumAlleles -> 0..MaxCoi]
\* the buffer returned by sample_genotype: a first draw g, then copies of a
\* second draw h, MaxDepth entries at most
GenotypeBuffers ==
    { [i \in 1..n |-> IF i = 1 THEN g ELSE h] :
        n \in 1..MaxDepth, g \in CountVectors, h \in CountVectors }
\* finite log-probabilities, some of them far below exp()'s range
LogProbs == {-800, -400, 0}
KernelEmission ==
    /\ kernel = NoKernel
    /\ \E obs \in ObsGenotypes, buf \in GenotypeBuffers :
        \E n \in 0..Len(buf) : EvalEmission(obs, buf, n)
KernelMarginal ==
    /\ kernel = NoKernel
    /\ \E depth \in 0..MaxDepth :
        \E given \in [1..depth -> LogProbs], star \in [1..depth -> LogProbs],
           imp \in [1..depth -> LogProbs] :
            EvalMarginal(given, star, imp, depth)
NextKernel == KernelEmission \/ KernelMarginal
SpecKernel == Init /\ [][NextKernel]_vars

\* ==================================================================== claims
Constructed == pc # "new"
ValidCoi == \A i \in Samples : genotyping_data.observed_coi[i] \in 1..params.max_coi

\* The cell was computed with exactly the current m[i], p[j], eps_neg, eps_pos.
Coherent(cache, j, i) ==
    /\ cache[j][i].coi = m[i]
    /\ cache[j][i].freq = p[j]
    /\ cache[j][i].eps_neg = eps_neg
    /\ cache[j][i].eps_pos = eps_pos

\* C1: after construction and after every call of a block, in any order,
\* every cell of llik_old holds the kernel value computed with exactly the
\* current m[i], p[j], eps_neg and eps_pos.
C1_CacheCoherence ==
    pc = "idle" => \A j \in Loci, i \in Samples : Coherent(llik_old, j, i)
\* an accepted COI proposal and an accepted eps+ proposal have both moved
\* the state away from the one the constructor evaluated
C1_Witness ==
    /\ pc = "idle"
    /\ calls.m > 0 /\ calls.eps_pos > 0
    /\ m # genotyping_data.observed_coi
    /\ eps_pos # params.eps_pos_0

\* C2 (as claimed): after any proposal's decision, accepted or rejected,
\* llik_new equals llik_old on every cell the proposal recomputed.
C2_CachesEqualAfterDecision ==
    \A c \in last.cells : llik_new[c[1]][c[2]].val = llik_old[c[1]][c[2]].val
\* C2 (amended): after an accepted proposal and its copy new->old, llik_new
\* equals llik_old on every cell the proposal recomputed.
C2_CachesEqualAfterAccept ==
    last.accepted => \A c \in last.cells : llik_new[c[1]][c[2]] = llik_old[c[1]][c[2]]
\* an accepted frequency proposal that recomputed a row of the cache
C2_Witness ==
    /\ last.block = "p" /\ last.accepted /\ last.cells # {}
    /\ p[last.index] # initialize_p(genotyping_data)[last.index]

\* C3: constructed with every observed_coi in [1, max_coi], the chain keeps
\* 1 <= m[i] <= max_coi for every sample, whatever delta is drawn.
C3_CoiBounds ==
    Constructed /\ ValidCoi => \A i \in Samples : 1 <= m[i] /\ m[i] <= params.max_coi
\* a COI has moved, and the latest proposal was drawn outside the range
C3_Witness ==
    /\ Constructed /\ ValidCoi
    /\ m # genotyping_data.observed_coi
    /\ last.block = "m" /\ (last.coi < 1 \/ last.coi > params.max_coi)

\* C4: constructed with eps_*_0 in (0, max_eps_*), the chain keeps
\* 0 < eps_pos < max_eps_pos and 0 < eps_neg < max_eps_neg.
C4_EpsBounds ==
    (/\ Constructed
     /\ 0 < params.eps_pos_0 /\ params.eps_pos_0 < params.max_eps_pos
     /\ 0 < params.eps_neg_0 /\ params.eps_neg_0 < params.max_eps_neg)
    => /\ 0 < eps_pos /\ eps_pos < params.max_eps_pos
       /\ 0 < eps_neg /\ eps_neg < params.max_eps_neg
\* eps+ has moved, and the latest eps- proposal was the bound itself
C4_Witness ==
    /\ Constructed
    /\ eps_pos # params.eps_pos_0
    /\ last.block = "eps_neg" /\ last.eps = params.max_eps_neg

\* the ranges of Parameters and GenotypingData
ValidConfiguration(pr) ==
    /\ pr.importance_sampling_depth >= 1
    /\ pr.max_coi >= 1
    /\ 0 < pr.max_eps_pos /\ pr.max_eps_pos < EpsOne
    /\ 0 < pr.max_eps_neg /\ pr.max_eps_neg < EpsOne
    /\ 0 < pr.eps_pos_0 /\ pr.eps_pos_0 < pr.max_eps_pos
    /\ 0 < pr.eps_neg_0 /\ pr.eps_neg_0 < pr.max_eps_neg
ValidObservation(gd, pr) ==
    \A i \in Samples : 1 <= gd.observed_coi[i] /\ gd.observed_coi[i] <= pr.max_coi

\* C5: a configuration field or an observation out of its range makes the
\* construction fail: no chain is constructed from it.
C5_ConstructionFailsFast ==
    Constructed =>
        ValidConfiguration(params) /\ ValidObservation(genotyping_data, params)

\* C6: for every legal observation set, all-zero observations included,
\* right after construction every p[j] is count(a)/total: entries >= 0 that
\* sum to 1.
C6_SimplexAtConstruction ==
    Constructed /\ calls.p = 0 =>
        \A j \in Loci : p[j] = initialize_p(genotyping_data)[j] /\ IsSimplex(p[j])

\* the step is a COI proposal for sample idx, non-zero and outside [1, max_coi]
OutOfRangeM ==
    /\ pc = "update_m"
    /\ last'.coi # m[idx]
    /\ (last'.coi < 1 \/ last'.coi > params.max_coi)
\* the step is an eps proposal outside (0, max_eps_*)
OutOfRangeEpsPos ==
    /\ calls'.eps_pos = calls.eps_pos + 1
    /\ (last'.eps <= 0 \/ last'.eps >= params.max_eps_pos)
OutOfRangeEpsNeg ==
    /\ calls'.eps_neg = calls.eps_neg + 1
    /\ (last'.eps <= 0 \/ last'.eps >= params.max_eps_neg)

\* C7: a proposal drawn out of range (block m, eps+, eps-) changes nothing
\* of the chain: parameters, proposal scales, counters, llik_old, llik_new.
C7_OutOfRangeNoChange ==
    [][OutOfRangeM \/ OutOfRangeEpsPos \/ OutOfRangeEpsNeg => UNCHANGED chain]_vars
\* after accepted changes, an out-of-range COI proposal has just been drawn
C7_Witness ==
    /\ last.block = "m" /\ last.coi > params.max_coi
    /\ \E i \in Samples : m_accept[i] > 0
    /\ calls.eps_neg > 0 /\ eps_neg_accept > 0

\* every acceptance counter is at most the number of calls of its block
CountersBounded ==
    Constructed =>
        /\ \A i \in Samples : m_accept[i] <= calls.m
        /\ \A j \in Loci : p_accept[j] <= calls.p
        /\ eps_pos_accept <= calls.eps_pos
        /\ eps_neg_accept <= calls.eps_neg
\* no counter decreases, and none grows by more than 1 in one proposal
CountersMonotone ==
    Constructed =>
        /\ \A i \in Samples : m_accept'[i] \in {m_accept[i], m_accept[i] + 1}
        /\ \A j \in Loci : p_accept'[j] \in {p_accept[j], p_accept[j] + 1}
        /\ eps_pos_accept' \in {eps_pos_accept, eps_pos_accept + 1}
        /\ eps_neg_accept' \in {eps_neg_accept, eps_neg_accept + 1}

\* C8: the acceptance counters never decrease, and each is at most the
\* number of times its block has been run.
C8_AcceptCounters == [][CountersMonotone]_vars /\ []CountersBounded
\* a sample accepted in every one of several update_m calls
C8_Witness ==
    /\ pc = "idle" /\ calls.m >= 2
    /\ \E i \in Samples : m_accept[i] = calls.m

\* v >= UNDERFLO for an eps proposal variance
GeUnderflo(v) == v.under \/ v.milli > 0

\* C9: p_prop_var[j] for every locus, eps_pos_var and eps_neg_var stay
\* >= UNDERFLO after any sequence of block updates.
C9_VarsAboveUnderflo ==
    Constructed =>
        /\ \A j \in Loci : p_prop_var[j] >= LOG_UNDERFLO
        /\ GeUnderflo(eps_pos_var)
        /\ GeUnderflo(eps_neg_var)

MStep == pc = "update_m" \/ pc' = "update_m"
PStep == pc = "update_p" \/ pc' = "update_p"
EpsPosStep == calls'.eps_pos # calls.eps_pos
EpsNegStep == calls'.eps_neg # calls.eps_neg
IsolatedStep ==
    /\ MStep \/ EpsPosStep \/ EpsNegStep => UNCHANGED <<p, p_prop_var, p_accept>>
    /\ PStep => UNCHANGED <<m, m_prop_mean, m_accept, eps_pos, eps_pos_var,
                            eps_pos_accept, eps_neg, eps_neg_var, eps_neg_accept>>
    /\ EpsPosStep => UNCHANGED eps_neg
    /\ EpsNegStep => UNCHANGED eps_pos
PUntouched ==
    Constructed /\ calls.p = 0 => p = initialize_p(genotyping_data)

\* C10: each block changes only its own parameter: the m and eps blocks
\* leave p, p_prop_var, p_accept alone, the p block leaves m, eps_* and
\* their scales and counters alone, eps+ leaves eps_neg and eps- leaves
\* eps_pos alone; without the p block p keeps its initial value.
C10_BlockIsolation == [][IsolatedStep]_vars /\ []PUntouched
\* m and eps- have both moved while the p block never ran
C10_Witness ==
    /\ pc = "idle" /\ calls.p = 0
    /\ m # genotyping_data.observed_coi
    /\ eps_neg # params.eps_neg_0

\* the step decides a COI proposal for sample idx that differs from m[idx]
\* and lies in [1, max_coi]
InRangeNonZeroM ==
    /\ pc = "update_m"
    /\ last'.block = "m"
    /\ last'.coi # m[idx]
    /\ 1 <= last'.coi /\ last'.coi <= params.max_coi
\* log U <= sum over j of (llik_new[j][i] - llik_old[j][i]), llik_new being
\* the candidate column the step has just computed
MAcceptTest ==
    /\ Len(last'.draws) = 1
    /\ DLeq(Dbl(last'.draws[1]),
            DSub(SumColumn(llik_new', idx), SumColumn(llik_old, idx)))
MTransition ==
    InRangeNonZeroM =>
        IF MAcceptTest
        THEN /\ m'[idx] = last'.coi
             /\ \A j \in Loci : llik_old'[j][idx] = llik_new'[j][idx]
             /\ m_prop_mean'[idx] = m_prop_mean[idx] + AdaptUp(iteration)
             /\ m_accept'[idx] = m_accept[idx] + 1
        ELSE /\ m'[idx] = m[idx]
             /\ llik_old' = llik_old
             /\ m_accept'[idx] = m_accept[idx]
             /\ m_prop_mean'[idx] =
                    IF m_prop_mean[idx] < AdaptDown(iteration) THEN 0
                    ELSE m_prop_mean[idx] - AdaptDown(iteration)
MeanNonNegative == Constructed => \A i \in Samples : m_prop_mean[i] >= 0

\* C12: an in-range, non-zero COI proposal for sample i is accepted iff
\* log U <= sum_j (llik_new[j][i] - llik_old[j][i]); on accept m[i] becomes
\* the proposal, column i is copied new->old, m_prop_mean[i] rises by
\* (1 - 0.23)/sqrt(it) and m_accept[i] by 1; on reject m[i], llik_old and
\* m_accept[i] stay and m_prop_mean[i] falls by 0.23/sqrt(it), clamped at 0;
\* so m_prop_mean[i] >= 0 always.
C12_BlockMTransition == [][MTransition]_vars /\ []MeanNonNegative
\* a sample that has accepted a COI change is rejected until its mean is
\* clamped at 0
C12_Witness ==
    /\ last.block = "m" /\ last.cells # {} /\ ~last.accepted
    /\ m_prop_mean[last.index] = 0
    /\ m_accept[last.index] > 0
    /\ m # genotyping_data.observed_coi

\* the step handles a proposed COI equal to m[idx]
ZeroDeltaM ==
    /\ pc = "update_m"
    /\ last'.block = "m"
    /\ last'.coi = m[idx]
ZeroDeltaEffect ==
    ZeroDeltaM =>
        /\ m_accept'[idx] = m_accept[idx] + 1
        /\ m_prop_mean'[idx] = m_prop_mean[idx] + AdaptUp(iteration)
        /\ UNCHANGED <<m, llik_old, llik_new>>
        /\ last'.cells = {}
        /\ last'.draws = <<>>

\* C13: a proposed COI equal to m[i] is accepted trivially: m_accept[i]
\* rises by 1 and m_prop_mean[i] by (1 - 0.23)/sqrt(it); m[i], llik_old and
\* llik_new are unchanged, no kernel evaluation is made and no acceptance
\* draw is consumed.
C13_ZeroDelta == [][ZeroDeltaEffect]_vars
\* an unchanged COI handled while llik_new still holds a rejected candidate
C13_Witness ==
    /\ last.block = "m" /\ last.coi = m[last.index] /\ last.accepted
    /\ m_accept[last.index] > 0
    /\ llik_new # llik_old

\* the largest of the log terms of the latest reduction
MaxTerm(terms) ==
    CHOOSE t \in {terms[i] : i \in DOMAIN terms} : \A i \in DOMAIN terms : terms[i] <= t
KernelTerms ==
    Terms(kernel.g_given_g_star, kernel.g_star, kernel.importance, kernel.depth)

\* C14: for finite inputs the kernel never returns minus infinity; when
\* every term exp(log P(obs|g) + log p*(g) - log q(g)) underflows to zero it
\* returns the maximum log term minus log D.
C14_KernelNeverMinusInf ==
    kernel.part = "calc_genotype_marginal_llik" /\ kernel.depth >= 1 =>
        /\ kernel.res # MinusInf
        /\ (\A i \in 1..kernel.depth : KernelTerms[i] < EXP_UNDERFLOW)
              => kernel.res = Finite(<<MaxTerm(KernelTerms)>>, kernel.depth)

\* the sum of f over a finite set of alleles
RECURSIVE SumOver(_, _)
SumOver(f, S) ==
    IF S = {} THEN 0
    ELSE LET a == CHOOSE x \in S : TRUE IN f[a] + SumOver(f, S \ {a})
\* the emission table of one (obs, g): g_a*log(1-eps_neg) where obs_a = 1 and
\* g_a > 0, log(eps_pos) where obs_a = 1 and g_a = 0, g_a*log(eps_neg) where
\* obs_a = 0 and g_a > 0, log(1-eps_pos) where obs_a = 0 and g_a = 0
EmissionTable(obs, g) ==
    LET A == DOMAIN g
    IN  [tp |-> SumOver(g, {a \in A : obs[a] = 1 /\ g[a] > 0}),
         fp |-> Cardinality({a \in A : obs[a] = 1 /\ g[a] = 0}),
         fn |-> SumOver(g, {a \in A : obs[a] = 0 /\ g[a] > 0}),
         tn |-> Cardinality({a \in A : obs[a] = 0 /\ g[a] = 0})]

\* C15: for every observed 0/1 vector obs and latent count vector g of the
\* same length, calc_obs_genotype_lliks returns for g the sum over alleles of
\* the emission table's entries.
C15_EmissionTable ==
    kernel.part = "calc_obs_genotype_lliks" =>
        \A i \in 1..kernel.num_genotypes :
            kernel.lliks[i] = EmissionTable(kernel.obs_genotype, kernel.true_genotypes[i])
\* two genotypes evaluated against an observation that meets all four
\* branches of the table, one of them with a latent count above 1
C15_Witness ==
    /\ kernel.part = "calc_obs_genotype_lliks"
    /\ kernel.num_genotypes = 2
    /\ kernel.obs_genotype[1] = 1 /\ kernel.obs_genotype[2] = 0
    /\ kernel.true_genotypes[1][1] = 2 /\ kernel.true_genotypes[1][2] = 0
    /\ kernel.true_genotypes[2][1] = 0 /\ kernel.true_genotypes[2][2] = 1

\* the step is a call of get_llik: the chain is idle before and after, and
\* no block has been called
GetLlikStep == pc = "idle" /\ pc' = "idle" /\ calls' = calls
ReadEffect ==
    GetLlikStep =>
        /\ llik' = SumAll(llik_old)
        /\ UNCHANGED <<m, m_accept, m_prop_mean, p, p_accept, p_prop_var,
                       eps_pos, eps_pos_accept, eps_pos_var,
                       eps_neg, eps_neg_accept, eps_neg_var, llik_old, llik_new>>
\* a call made when llik already holds the total returns llik again
ReadAgain == GetLlikStep /\ llik = SumAll(llik_old) => llik' = llik

\* C16: called between block updates, get_llik returns the sum of
\* llik_old[j][i] over all loci and samples and changes nothing of the chain
\* but the cached total llik, so two consecutive calls return the same.
C16_GetLlikCoherentRead == [][ReadEffect /\ ReadAgain]_vars
\* the total has been read after an accepted proposal replaced the whole
\* cache, and it is a number other than the 0 the constructor left in llik
C16_Witness ==
    /\ pc = "idle"
    /\ last.accepted /\ last.cells = Cells
    /\ ~llik.nan /\ llik.x # 0
    /\ llik = SumAll(llik_old)

\* the cells the next proposal of the running pass will sum into sum_orig
\* were computed at the current m, p, eps_neg and eps_pos
CoherentInPass ==
    /\ pc = "update_m" => \A j \in Loci : Coherent(llik_old, j, idx)
    /\ pc = "update_p" => \A i \in Samples : Coherent(llik_old, idx, i)
\* a proposal for sample idx leaves every other column of the two caches
\* alone, a proposal for locus idx every other row
WritesOwnCells ==
    /\ pc = "update_m" =>
            \A j \in Loci, i \in Samples \ {idx} :
                llik_old'[j][i] = llik_old[j][i] /\ llik_new'[j][i] = llik_new[j][i]
    /\ pc = "update_p" =>
            \A j \in Loci \ {idx}, i \in Samples :
                llik_old'[j][i] = llik_old[j][i] /\ llik_new'[j][i] = llik_new[j][i]

\* C17: within one update_m pass over the samples and one update_p pass over
\* the loci, when each proposal is decided the llik_old cells summed into
\* sum_orig were computed at the current m, p, eps_neg and eps_pos, changes
\* accepted earlier in the pass included; a proposal for sample i writes
\* only column i of llik_old / llik_new, a proposal for locus j only row j.
C17_CoherenceInsidePass == []CoherentInPass /\ [][WritesOwnCells]_vars
\* the second locus of an update_p pass is about to be decided after the
\* first was accepted, on a chain whose COIs have moved as well
C17_Witness ==
    /\ pc = "update_p" /\ idx = 2
    /\ last.block = "p" /\ last.index = 1 /\ last.accepted
    /\ m # genotyping_data.observed_coi

\* the kernel call that filled the cell read the two tables inside them
ReadsInRange(cell) ==
    /\ 1 <= cell.coi /\ cell.coi <= params.max_coi
    /\ SamplingDepthRead(cell.coi, cell.freq)
           \in lookup_sampling_depth(genotyping_data, params)
    /\ LgammaRead(cell.coi) \in lookup_lgamma(genotyping_data, params)

\* C18: for a chain constructed with every observed_coi in [1, max_coi],
\* every kernel call of the constructor and of the block updates (each call
\* fills a cell of llik_new) passes a coi in [1, max_coi], so
\* lookup_sampling_depth[coi][A] and lookup_lgamma[coi + 1] are read inside
\* the tables sized for max_coi.
C18_LookupIndicesInRange ==
    Constructed /\ ValidCoi =>
        \A j \in Loci, i \in Samples :
            ReadsInRange(llik_new[j][i]) /\ ReadsInRange(llik_old[j][i])
\* the kernel has just been called for a proposed COI equal to max_coi, by
\* a sample whose COI had moved down before
C18_Witness ==
    /\ Constructed /\ ValidCoi
    /\ last.block = "m" /\ last.cells # {} /\ last.accepted
    /\ last.coi = params.max_coi
    /\ m_accept[last.index] >= 2
    /\ \A j \in Loci : llik_new[j][last.index].coi = params.max_coi
====
